---- MODULE Spec2Model ----
(***************************************************************************)
(* Model of olive/passes/onnx/quantization.py: the run-configuration       *)
(* building and execution of OnnxQuantization._run_for_config, the version *)
(* gate of OnnxMatMul4Quantizer._run_for_config, and the rule set of       *)
(* OnnxQuantization.validate_search_point.                                 *)
(*                                                                         *)
(* Python dicts are functions from a set of string keys to string values.  *)
(* A nested dict is held by reference: the value is an address ("@...")    *)
(* into heap, so that copying and aliasing are distinguishable.            *)
(***************************************************************************)
EXTENDS Naturals, Sequences, FiniteSets, TLC

VARIABLES
    passKind,       \* the class whose _run_for_config runs
    OrtVersion,     \* onnxruntime.__version__, as <<major, minor, patch>>
    qnn_extra,      \* extra_options attribute the installed get_qnn_qdq_config produces
    heap,           \* address -> dict
    config0,        \* the caller's config as handed in (history, never written)
    extra0,         \* the caller's nested extra_options as handed in (history)
    run_config,     \* address of the local run_config
    extra_options,  \* address of the local extra_options
    is_static,      \* local is_static
    input_path,     \* model.model_path of the model handed to this run
    model,          \* model.model_path after the preprocessing step
    dataloader,     \* local dataloader ("UNBOUND" while unassigned)
    tmp_dir,        \* input paths whose preprocessed.onnx exists under self.tmp_dir
    pre_calls,      \* per input path, the quant_pre_process calls this instance made
    intersection,   \* keys named by the collision warning of this run
    calls,          \* external calls made by this run, in order
    outcome,        \* what the transformation call of this run did
    pc,             \* position in _run_for_config
    error,          \* the exception leaving _run_for_config ("None" if none)
    cause,          \* its __cause__
    runs,           \* completed runs on this pass instance
    history         \* keyword configuration handed to the transformation, per run

vars == <<passKind, OrtVersion, qnn_extra, heap, config0, extra0, run_config,
          extra_options, is_static, input_path, model, dataloader, tmp_dir,
          pre_calls, intersection, calls, outcome, pc, error, cause, runs, history>>

\* validate_search_point is modelled under its own specification
VARIABLES
    search_point,      \* the point handed to validate_search_point (None, or a dict)
    with_fixed_value,  \* its with_fixed_value argument
    vresult,           \* "pending", "Accept", "Reject" or the exception raised
    vwarned            \* whether the advisory warning was logged

vvars == <<search_point, with_fixed_value, vresult, vwarned>>

\* runs that share one self.tmp_dir concurrently are modelled under their own
\* specification
VARIABLES
    conc,      \* per concurrent run: its position, input path, flag, branch and hand-over
    artifact   \* per input path: the state of its preprocessed.onnx on disk

cvars == <<conc, artifact>>

\* the parameter table built by _default_config and its resolution are modelled
\* under their own specification
VARIABLES
    static_optional_config,  \* the deepcopy of _static_optional_config the loop rewrites
    rewritten,               \* how many of its entries the loop has rewritten
    parent_values,           \* the values of quant_mode, quant_format and weight_type
    omitted_default,         \* what a Conditional built without default= falls back to
    resolved                 \* per parameter: the resolved default and allowed values

tvars == <<static_optional_config, rewritten, parent_values, omitted_default, resolved>>

----------------------------------------------------------------------------
(* Bounds *)

MaxRuns == 2

\* number of runs executing concurrently against one self.tmp_dir
NumConcurrent == 2

ModelPaths == {"a.onnx", "b.onnx"}

----------------------------------------------------------------------------
(* Dict helpers *)

EmptyDict == [k \in {} |-> "None"]

Del(d, K) == [k \in DOMAIN d \ K |-> d[k]]

Update(d, e) == [k \in DOMAIN d \cup DOMAIN e |-> IF k \in DOMAIN e THEN e[k] ELSE d[k]]

Get(d, k, default) == IF k \in DOMAIN d THEN d[k] ELSE default

\* Python truthiness of the values used here
Truthy(v) == v \notin {"None", "False", "{}", ""}

----------------------------------------------------------------------------
(* The parameter tables *)

\* _onnx_quantization_config
CommonKeys ==
    {"weight_type", "op_types_to_quantize", "nodes_to_quantize", "nodes_to_exclude",
     "per_channel", "reduce_range", "quant_preprocess"}

\* _exposed_extra_options_config
ExposedKeys ==
    {"extra.Sigmoid.nnapi", "ActivationSymmetric", "WeightSymmetric", "EnableSubgraph",
     "ForceQuantizeNoInputCheck", "MatMulConstBOnly"}

\* _static_dataloader_config
StaticDataloaderKeys ==
    {"data_dir", "batch_size", "dataloader_func", "dataloader_func_kwargs", "data_config"}

\* _static_optional_config
StaticOptionalKeys ==
    {"calibrate_method", "quant_format", "activation_type", "prepare_qnn_config"}

\* get_external_data_config() of olive.passes.onnx.common
ExternalDataKeys ==
    {"save_as_external_data", "all_tensors_to_one_file", "external_data_name"}

\* the keys a pass with _requires_user_script carries
UserScriptKeys == {"script_dir", "user_script"}

\* MatMulConstBOnly: ConditionalDefault on quant_mode
MatMulConstBOnlyDefault(quant_mode) == IF quant_mode = "dynamic" THEN "True" ELSE "False"

\* string -> enum conversions of onnxruntime.quantization
CalibrationMethod ==
    [MinMax |-> "CalibrationMethod.MinMax", Entropy |-> "CalibrationMethod.Entropy",
     Percentile |-> "CalibrationMethod.Percentile"]

QuantFormat == [QOperator |-> "QuantFormat.QOperator", QDQ |-> "QuantFormat.QDQ"]

QuantType == [QInt8 |-> "QuantType.QInt8", QUInt8 |-> "QuantType.QUInt8"]

\* version.parse(a) < version.parse(b) on release triples
VersionLess(a, b) ==
    \/ a[1] < b[1]
    \/ a[1] = b[1] /\ a[2] < b[2]
    \/ a[1] = b[1] /\ a[2] = b[2] /\ a[3] < b[3]

QuantKinds == {"OnnxQuantization", "OnnxDynamicQuantization"}

PassKinds == QuantKinds \cup {"OnnxMatMul4Quantizer"}

Addr == {"@config", "@cx", "@run", "@rx", "@extra", "@qnn", "@qx"}

----------------------------------------------------------------------------
(* Inputs *)

OrtVersions == {<<1, 15, 1>>, <<1, 16, 0>>, <<1, 16, 2>>, <<1, 17, 0>>}

\* what self.tmp_dir holds when the runs under study begin: nothing, or the
\* artifact of a.onnx preprocessed by an earlier run of this instance
EarlierPreprocessed == {{}, {"a.onnx"}}

\* caller-supplied extra_options: None, or a dict
ExtraOptionsChoices ==
    {EmptyDict,
     [ActivationSymmetric |-> "True"],
     [CalibMovingAverage |-> "True"],
     [ActivationSymmetric |-> "False", CalibMovingAverage |-> "True"]}

\* the extra_options attribute of the StaticQuantConfig get_qnn_qdq_config returns
QnnExtraChoices ==
    {[MinimumRealRange |-> "0.0001", DedicatedQDQPair |-> "False"],
     [MinimumRealRange |-> "0.0001", ActivationSymmetric |-> "True"]}

\* the config table of OnnxQuantization._default_config at one point
QuantizationConfig(quant_mode, df, dc, pre, qnn, asym, xref) ==
    [quant_mode |-> quant_mode,
     weight_type |-> "QInt8",
     op_types_to_quantize |-> "None",
     nodes_to_quantize |-> "None",
     nodes_to_exclude |-> "None",
     per_channel |-> "False",
     reduce_range |-> "False",
     quant_preprocess |-> pre,
     data_dir |-> "data",
     batch_size |-> "1",
     dataloader_func |-> df,
     dataloader_func_kwargs |-> "None",
     data_config |-> dc,
     calibrate_method |-> "MinMax",
     quant_format |-> "QDQ",
     activation_type |-> "QInt8",
     prepare_qnn_config |-> qnn,
     ActivationSymmetric |-> asym,
     WeightSymmetric |-> "True",
     EnableSubgraph |-> "False",
     ForceQuantizeNoInputCheck |-> "False",
     MatMulConstBOnly |-> MatMulConstBOnlyDefault(quant_mode),
     extra_options |-> xref,
     save_as_external_data |-> "False",
     all_tensors_to_one_file |-> "True",
     external_data_name |-> "None",
     script_dir |-> "None",
     user_script |-> "None"]
      @@ ("extra.Sigmoid.nnapi" :> "False")

\* the config table of OnnxDynamicQuantization._default_config at one point
DynamicConfig(pre, asym, xref) ==
    Del(QuantizationConfig("dynamic", "None", "None", pre, "False", asym, xref),
        StaticDataloaderKeys \cup StaticOptionalKeys \cup UserScriptKeys)

\* the config table of OnnxMatMul4Quantizer._default_config at its defaults
MatMulConfig ==
    [block_size |-> "32", is_symmetric |-> "True", nodes_to_exclude |-> "None",
     save_as_external_data |-> "False", all_tensors_to_one_file |-> "True",
     external_data_name |-> "None"]

----------------------------------------------------------------------------
(* OnnxQuantization._run_for_config, step by step *)

Fail(kind, from) == pc' = "failed" /\ error' = kind /\ cause' = from

\* a dict value that is a reference to a non-empty dict is truthy
TruthyRef(h, v) == v \in Addr /\ h[v] # EmptyDict

\* run_config = deepcopy(config): a fresh dict, its nested extra_options copied too
DeepcopyConfig(h) ==
    LET nested == h["@config"]["extra_options"] IN
    [addr |-> "@run",
     heap |-> [h EXCEPT !["@run"] =
                            IF nested \in Addr
                            THEN [h["@config"] EXCEPT !["extra_options"] = "@rx"]
                            ELSE h["@config"],
                        !["@rx"] = IF nested \in Addr THEN h[nested] ELSE EmptyDict]]

\* faulty variant: the assert is gone
AssertStripped(config) == TRUE

\* the assert of static mode: dataloader_func or data_config
CalibrationSourceGiven(config) ==
    Truthy(config["dataloader_func"]) \/ Truthy(config["data_config"])

\* faulty variant: extra_options = config["extra_options"] or {}, without the deepcopy
AliasExtraOptions(h) ==
    LET nested == h["@config"]["extra_options"] IN
    IF TruthyRef(h, nested)
    THEN [addr |-> nested, heap |-> h]
    ELSE [addr |-> "@extra", heap |-> [h EXCEPT !["@extra"] = EmptyDict]]

\* extra_options = deepcopy(config["extra_options"]) if config["extra_options"] else {}
DeepcopyExtraOptions(h) ==
    LET nested == h["@config"]["extra_options"] IN
    [addr |-> "@extra",
     heap |-> [h EXCEPT !["@extra"] = IF TruthyRef(h, nested) THEN h[nested] ELSE EmptyDict]]

\* faulty variant: the intersection is taken after the exposed-option loop
IntersectionAfterLoop(extra) == (DOMAIN extra \cup ExposedKeys) \cap ExposedKeys

\* intersection: the keys of extra_options that are already exposed; the warning is
\* logged when it is not empty, and names it
Intersection(extra) == DOMAIN extra \cap ExposedKeys

\* for key in _exposed_extra_options_config:
\*     extra_options[key] = run_config[key]; del run_config[key]
MergeExposed(h, xa, ra) ==
    LET exposed == [k \in ExposedKeys |-> h[ra][k]]
        h1 == [h EXCEPT ![xa] = Update(h[xa], exposed)]
    IN  [h1 EXCEPT ![ra] = Del(h1[ra], ExposedKeys)]

\* Path(self.tmp_dir.name) / hash_string(resolved input path) / "preprocessed.onnx"
PreprocessedPath(path) == "olive_tmp/" \o path \o "/preprocessed.onnx"

\* the version gate of prepare_qnn_config
QnnVersionUnsupported(rc, ort) ==
    Truthy(Get(rc, "prepare_qnn_config", "False")) /\ VersionLess(ort, <<1, 17, 0>>)

\* faulty variant: the dynamic branch forgets the static-only keys
ToDeleteKeepsStaticOptional(static) ==
    {"quant_mode", "script_dir", "user_script", "quant_preprocess", "data_config",
     "prepare_qnn_config"}
      \cup ExternalDataKeys
      \cup StaticDataloaderKeys

\* to_delete
ToDelete(static) ==
    {"quant_mode", "script_dir", "user_script", "quant_preprocess", "data_config",
     "prepare_qnn_config"}
      \cup ExternalDataKeys
      \cup StaticDataloaderKeys
      \cup (IF static THEN {} ELSE StaticOptionalKeys)

\* the dict handed to run_config.update(...)
EnumUpdate(rc, static, xa) ==
    IF static
    THEN [calibrate_method |-> CalibrationMethod[rc["calibrate_method"]],
          quant_format |-> QuantFormat[rc["quant_format"]],
          activation_type |-> QuantType[rc["activation_type"]],
          weight_type |-> QuantType[rc["weight_type"]],
          extra_options |-> xa]
    ELSE [weight_type |-> QuantType[rc["weight_type"]],
          extra_options |-> xa]

\* run_config after the update, the deletions and the optimize_model default
BuiltRunConfig(rc, static, xa, ort) ==
    LET pruned == Del(Update(rc, EnumUpdate(rc, static, xa)), ToDelete(static))
    IN  IF VersionLess(ort, <<1, 16, 0>>)
        THEN Update(pruned, [optimize_model |-> "False"])
        ELSE pruned

\* faulty variant: data_config is tested first
DataConfigFirst(config) ==
    IF Truthy(config["data_config"]) THEN "data_config"
    ELSE IF Truthy(config["dataloader_func"]) THEN "dataloader_func"
    ELSE "UNBOUND"

\* if config["dataloader_func"]: ... elif config["data_config"]: ...
DataloaderSource(config) ==
    IF Truthy(config["dataloader_func"]) THEN "dataloader_func"
    ELSE IF Truthy(config["data_config"]) THEN "data_config"
    ELSE "UNBOUND"

\* the public members of the StaticQuantConfig that get_qnn_qdq_config returns,
\* built from the arguments the call hands it
QnnConfigMembers(rc) ==
    [calibration_data_reader |-> "dataloader",
     calibrate_method |-> rc["calibrate_method"],
     quant_format |-> QuantFormat["QDQ"],
     activation_type |-> rc["activation_type"],
     weight_type |-> rc["weight_type"],
     op_types_to_quantize |-> "qnn_op_types",
     nodes_to_quantize |-> "None",
     nodes_to_exclude |-> "None",
     per_channel |-> rc["per_channel"],
     reduce_range |-> "False",
     use_external_data_format |-> "False",
     extra_options |-> "@qx"]

\* for key in ("calibration_data_reader", "use_external_data_format"): del run_config[key]
StaticKeywords(rc) == Del(rc, {"calibration_data_reader", "use_external_data_format"})

\* quantize_dynamic(..., **run_config)
DynamicKeywords(rc) == rc

\* faulty variant: except Exception
CaughtAll == {"AttributeError", "ValueError", "TypeError", "RuntimeError"}

\* except (AttributeError, ValueError)
Caught == {"AttributeError", "ValueError"}

\* what the external transformation call can do
Outcomes == {"ok", "AttributeError", "ValueError", "TypeError", "RuntimeError"}

\* the dict a keyword configuration's extra_options refers to
ExtraOf(h, kw) ==
    IF "extra_options" \in DOMAIN kw /\ kw["extra_options"] \in Addr
    THEN h[kw["extra_options"]]
    ELSE EmptyDict

HandedOver(path, input, kw, extra) ==
    [input_path |-> path, model_input |-> input, kw |-> kw, extra |-> extra]

ExternalCall(fn, input, kw, extra) ==
    [fn |-> fn, model_input |-> input, kw |-> kw, extra |-> extra]

----------------------------------------------------------------------------
(* Initial states: a pass instance, its config, and the installed onnxruntime *)

NoQnnExtra == [MinimumRealRange |-> "0.0001", DedicatedQDQPair |-> "False"]

InitHeap(config, extra) ==
    [a \in Addr |-> IF a = "@config" THEN config ELSE IF a = "@cx" THEN extra ELSE EmptyDict]

InitLocals ==
    /\ run_config = "None"
    /\ extra_options = "None"
    /\ is_static = FALSE
    /\ input_path = "None"
    /\ model = "None"
    /\ dataloader = "UNBOUND"
    /\ intersection = {}
    /\ calls = <<>>
    /\ outcome = "None"
    /\ pc = "start"
    /\ error = "None"
    /\ cause = "None"

ValidateIdle ==
    /\ search_point = [is_none |-> TRUE, items |-> EmptyDict]
    /\ with_fixed_value = FALSE
    /\ vresult = "idle"
    /\ vwarned = FALSE

(* Search parameters.  A leaf is a Categorical, a plain value, INVALID, IGNORED  *)
(* or nothing; a Conditional maps tuples of parent values to leaves.             *)

Leaf(kind, values) == [kind |-> kind, values |-> values]

\* Conditional.get_invalid_choice(), Conditional.get_ignored_choice()
get_invalid_choice == Leaf("INVALID", {})
get_ignored_choice == Leaf("IGNORED", {})

NoSupport == [k \in {} |-> get_invalid_choice]

Plain(kind, values) ==
    [kind |-> kind, values |-> values, parents |-> <<>>, support |-> NoSupport,
     default |-> "None"]

Categorical(values) == Plain("Categorical", values)
DefaultValue(v) == Plain("Value", {v})
NoSearchableValues == Plain("None", {})

\* default is "INVALID", "IGNORED", or "omitted" when the constructor gets no default=
Conditional(parents, support, default) ==
    [kind |-> "Conditional", values |-> {}, parents |-> parents, support |-> support,
     default |-> default]

ConditionalDefault(parents, support) == Conditional(parents, support, "omitted")

PassConfigParam(default_value, searchable_values) ==
    [default_value |-> default_value, searchable_values |-> searchable_values]

\* a variant of the support of activation_type with no invalid combination
ActivationTypeSupportAllValid ==
    (<<"QDQ", "QInt8">> :> Leaf("Categorical", {"QInt8"}))
    @@ (<<"QDQ", "QUInt8">> :> Leaf("Categorical", {"QUInt8"}))
    @@ (<<"QOperator", "QUInt8">> :> Leaf("Categorical", {"QUInt8"}))
    @@ (<<"QOperator", "QInt8">> :> Leaf("Categorical", {"QInt8"}))

\* support= of _static_optional_config["activation_type"].searchable_values
ActivationTypeSupport ==
    (<<"QDQ", "QInt8">> :> Leaf("Categorical", {"QInt8"}))
    @@ (<<"QDQ", "QUInt8">> :> Leaf("Categorical", {"QUInt8"}))
    @@ (<<"QOperator", "QUInt8">> :> Leaf("Categorical", {"QUInt8"}))
    @@ (<<"QOperator", "QInt8">> :> get_invalid_choice)

\* _static_optional_config
StaticOptionalConfig ==
    [name \in StaticOptionalKeys |->
        CASE name = "calibrate_method" ->
               PassConfigParam(DefaultValue("MinMax"),
                               Categorical({"MinMax", "Entropy", "Percentile"}))
          [] name = "quant_format" ->
               PassConfigParam(DefaultValue("QDQ"), Categorical({"QOperator", "QDQ"}))
          [] name = "activation_type" ->
               PassConfigParam(DefaultValue("QInt8"),
                               Conditional(<<"quant_format", "weight_type">>,
                                           ActivationTypeSupport, "omitted"))
          [] name = "prepare_qnn_config" ->
               PassConfigParam(DefaultValue("False"), NoSearchableValues)]

\* the order in which `for value in static_optional_config.values()` visits the entries
StaticOptionalOrder ==
    <<"calibrate_method", "quant_format", "activation_type", "prepare_qnn_config">>

\* the body of the loop of _default_config for one entry
RewriteForQuantMode(value) ==
    PassConfigParam(
        ConditionalDefault(<<"quant_mode">>,
            (<<"static">> :> Leaf(value.default_value.kind, value.default_value.values))
            @@ (<<"dynamic">> :> get_ignored_choice)),
        IF value.searchable_values.kind = "Categorical"
        THEN Conditional(<<"quant_mode">>,
                 (<<"static">> :> Leaf("Categorical", value.searchable_values.values)),
                 "IGNORED")
        ELSE IF value.searchable_values.kind = "Conditional"
        THEN Conditional(<<"quant_mode">> \o value.searchable_values.parents,
                 [k \in {<<"static">> \o key : key \in DOMAIN value.searchable_values.support}
                    |-> value.searchable_values.support[Tail(k)]],
                 "IGNORED")
        ELSE value.searchable_values)

\* the key a Conditional looks up: the parents' values, in the order of parents
KeyOf(parents, values) == [i \in 1..Len(parents) |-> values[parents[i]]]

\* resolution of a search parameter at the parents' values: exact key, else default
Resolve(param, values, omitted) ==
    IF param.kind = "Conditional"
    THEN IF KeyOf(param.parents, values) \in DOMAIN param.support
         THEN param.support[KeyOf(param.parents, values)]
         ELSE Leaf(IF param.default = "omitted" THEN omitted ELSE param.default, {})
    ELSE Leaf(param.kind, param.values)

QuantModes == {"static", "dynamic"}
QuantFormats == {"QOperator", "QDQ"}
\* weight_type is a str: the two searchable values and one a caller fixes outside them
WeightTypes == {"QInt8", "QUInt8", "QInt16"}
\* the library's fallback for a Conditional built without default= is not in this file
OmittedDefaults == {"INVALID", "IGNORED"}

ParentValues(quant_mode, quant_format, weight_type) ==
    [n \in {"quant_mode", "quant_format", "weight_type"} |->
        CASE n = "quant_mode" -> quant_mode
          [] n = "quant_format" -> quant_format
          [] n = "weight_type" -> weight_type]

NotResolved ==
    [name \in StaticOptionalKeys |->
        [default |-> Leaf("pending", {}), allowed |-> Leaf("pending", {})]]

TableIdle ==
    /\ static_optional_config = StaticOptionalConfig
    /\ rewritten = 0
    /\ parent_values = ParentValues("static", "QDQ", "QInt8")
    /\ omitted_default = "INVALID"
    /\ resolved = NotResolved

ConcurrentIdle ==
    /\ conc = <<>>
    /\ artifact = [p \in ModelPaths |-> "absent"]

InitConfig(config, extra) ==
    /\ heap = InitHeap(config, extra)
    /\ config0 = config
    /\ extra0 = extra

Init ==
    /\ passKind \in PassKinds
    /\ OrtVersion \in OrtVersions
    /\ \E hasExtra \in BOOLEAN, extra \in ExtraOptionsChoices, pre, asym \in {"True", "False"} :
          LET xref == IF hasExtra THEN "@cx" ELSE "None" IN
          /\ hasExtra \/ extra = EmptyDict
          /\ \/ /\ passKind = "OnnxQuantization"
                /\ \E quant_mode \in {"static", "dynamic"},
                      df \in {"None", "create_dataloader"},
                      dc \in {"None", "{}", "calib_data_config"},
                      qnn \in {"True", "False"} :
                      /\ InitConfig(QuantizationConfig(quant_mode, df, dc, pre, qnn, asym, xref),
                                    extra)
                      /\ qnn_extra \in QnnExtraChoices
                      /\ (quant_mode = "static" /\ qnn = "True") \/ qnn_extra = NoQnnExtra
             \/ /\ passKind = "OnnxDynamicQuantization"
                /\ InitConfig(DynamicConfig(pre, asym, xref), extra)
                /\ qnn_extra = NoQnnExtra
             \/ /\ passKind = "OnnxMatMul4Quantizer"
                /\ ~hasExtra /\ pre = "True" /\ asym = "True"
                /\ InitConfig(MatMulConfig, EmptyDict)
                /\ qnn_extra = NoQnnExtra
    /\ InitLocals
    /\ tmp_dir \in IF passKind \in QuantKinds THEN EarlierPreprocessed ELSE {{}}
    /\ pre_calls = [p \in ModelPaths |-> IF p \in tmp_dir THEN 1 ELSE 0]
    /\ runs = 0
    /\ history = <<>>
    /\ ValidateIdle
    /\ ConcurrentIdle
    /\ TableIdle

----------------------------------------------------------------------------
(* Actions of OnnxQuantization._run_for_config *)

Inputs == <<passKind, OrtVersion, qnn_extra, config0, extra0, runs, vvars, cvars, tvars>>

Frozen == <<Inputs, pre_calls>>

\* run_config = deepcopy(config); is_static; the assert of static mode
CopyConfig ==
    /\ pc = "start"
    /\ passKind \in QuantKinds
    /\ \E path \in ModelPaths :
          /\ input_path' = path
          /\ model' = path
    /\ LET c == DeepcopyConfig(heap)
           static == c.heap[c.addr]["quant_mode"] = "static"
       IN  /\ run_config' = c.addr
           /\ heap' = c.heap
           /\ is_static' = static
           /\ IF static /\ ~CalibrationSourceGiven(heap["@config"])
              THEN Fail("AssertionError", "None")
              ELSE pc' = "merge" /\ UNCHANGED <<error, cause>>
    /\ UNCHANGED <<Frozen, extra_options, dataloader, tmp_dir, intersection, calls,
                   outcome, history>>

\* the extra_options copy, the collision warning, the exposed-option loop
MergeExtraOptions ==
    /\ pc = "merge"
    /\ LET x == DeepcopyExtraOptions(heap) IN
       /\ extra_options' = x.addr
       /\ intersection' = Intersection(x.heap[x.addr])
       /\ IF ExposedKeys \subseteq DOMAIN x.heap[run_config]
          THEN /\ heap' = MergeExposed(x.heap, x.addr, run_config)
               /\ pc' = "preprocess"
               /\ UNCHANGED <<error, cause>>
          ELSE /\ heap' = x.heap
               /\ Fail("KeyError", "None")
    /\ UNCHANGED <<Frozen, run_config, is_static, input_path, model, dataloader, tmp_dir,
                   calls, outcome, history>>

\* faulty variant: the existence test is gone
AlwaysPreprocess(path, dir) == TRUE

\* if not preprocessed_temp_model_path.exists()
NotYetPreprocessed(path, dir) == path \notin dir

\* the preprocessing step and its cache under self.tmp_dir; _quant_preprocess leaves
\* preprocessed.onnx behind whether quant_pre_process returns or raises (the except
\* branch saves the original model there)
Preprocess ==
    /\ pc = "preprocess"
    /\ IF Truthy(heap[run_config]["quant_preprocess"])
       THEN IF NotYetPreprocessed(input_path, tmp_dir)
            THEN /\ calls' = Append(calls, ExternalCall("quant_pre_process", model,
                                                        EmptyDict, EmptyDict))
                 /\ pre_calls' = [pre_calls EXCEPT ![input_path] = @ + 1]
                 /\ tmp_dir' = tmp_dir \cup {input_path}
                 /\ model' = PreprocessedPath(input_path)
            ELSE /\ model' = PreprocessedPath(input_path)
                 /\ UNCHANGED <<calls, tmp_dir, pre_calls>>
       ELSE UNCHANGED <<calls, tmp_dir, pre_calls, model>>
    /\ pc' = "version"
    /\ UNCHANGED <<Inputs, heap, run_config, extra_options, is_static, input_path,
                   dataloader, intersection, outcome, error, cause, history>>

\* prepare_qnn_config needs onnxruntime >= 1.17.0
VersionCheck ==
    /\ pc = "version"
    /\ IF QnnVersionUnsupported(heap[run_config], OrtVersion)
       THEN Fail("OlivePassError", "None")
       ELSE pc' = "build" /\ UNCHANGED <<error, cause>>
    /\ UNCHANGED <<Frozen, heap, run_config, extra_options, is_static, input_path, model,
                   dataloader, tmp_dir, intersection, calls, outcome, history>>

\* to_delete, the enum conversions, optimize_model
BuildRunConfig ==
    /\ pc = "build"
    /\ heap' = [heap EXCEPT ![run_config] =
                   BuiltRunConfig(heap[run_config], is_static, extra_options, OrtVersion)]
    /\ pc' = IF is_static THEN "dataloader" ELSE "quantize_dynamic"
    /\ UNCHANGED <<Frozen, run_config, extra_options, is_static, input_path, model,
                   dataloader, tmp_dir, intersection, calls, outcome, error, cause, history>>

\* the calibration dataloader; the user's loader may raise
GetDataloader ==
    /\ pc = "dataloader"
    /\ \E raised \in BOOLEAN :
          IF raised /\ DataloaderSource(heap["@config"]) # "UNBOUND"
          THEN Fail("Exception", "None") /\ UNCHANGED dataloader
          ELSE /\ dataloader' = DataloaderSource(heap["@config"])
               /\ pc' = IF Truthy(heap["@config"]["prepare_qnn_config"])
                        THEN "qnn" ELSE "quantize_static"
               /\ UNCHANGED <<error, cause>>
    /\ UNCHANGED <<Frozen, heap, run_config, extra_options, is_static, input_path, model,
                   tmp_dir, intersection, calls, outcome, history>>

\* get_qnn_qdq_config, and run_config replaced by the members of its result
PrepareQnn ==
    /\ pc = "qnn"
    /\ IF dataloader = "UNBOUND"
       THEN Fail("UnboundLocalError", "None") /\ UNCHANGED <<calls, heap, run_config>>
       ELSE /\ calls' = Append(calls, ExternalCall("get_qnn_qdq_config", model,
                                                   EmptyDict, EmptyDict))
            /\ \E raised \in BOOLEAN :
                  IF raised
                  THEN Fail("Exception", "None") /\ UNCHANGED <<heap, run_config>>
                  ELSE /\ heap' = [heap EXCEPT
                                     !["@qnn"] = Del(QnnConfigMembers(heap[run_config]),
                                                     {"calibration_data_reader"}),
                                     !["@qx"] = qnn_extra]
                       /\ run_config' = "@qnn"
                       /\ pc' = "quantize_static"
                       /\ UNCHANGED <<error, cause>>
    /\ UNCHANGED <<Frozen, extra_options, is_static, input_path, model, dataloader,
                   tmp_dir, intersection, outcome, history>>

\* the except clause around the transformation call
AfterTransformation(o, next) ==
    IF o = "ok" THEN pc' = next /\ UNCHANGED <<error, cause>>
    ELSE IF o \in Caught THEN Fail("OlivePassError", o)
    ELSE Fail(o, "None")

\* faulty variant: the dynamic call is not under the else
FallThroughToDynamic == "quantize_dynamic"

\* where control goes when quantize_static returns
AfterStaticCall == "load"

\* quantize_static(model_input, model_output, calibration_data_reader, **run_config)
QuantizeStatic ==
    /\ pc = "quantize_static"
    /\ LET kw == StaticKeywords(heap[run_config]) IN
       /\ heap' = [heap EXCEPT ![run_config] = kw]
       /\ IF dataloader = "UNBOUND"
          THEN Fail("UnboundLocalError", "None") /\ UNCHANGED <<calls, outcome, history>>
          ELSE /\ calls' = Append(calls, ExternalCall("quantize_static", model, kw,
                                                      ExtraOf(heap, kw)))
               /\ history' = Append(history, HandedOver(input_path, model, kw, ExtraOf(heap, kw)))
               /\ \E o \in Outcomes :
                     /\ outcome' = o
                     /\ AfterTransformation(o, AfterStaticCall)
    /\ UNCHANGED <<Frozen, run_config, extra_options, is_static, input_path, model,
                   dataloader, tmp_dir, intersection>>

\* quantize_dynamic(model_input, model_output, **run_config)
QuantizeDynamic ==
    /\ pc = "quantize_dynamic"
    /\ LET kw == DynamicKeywords(heap[run_config]) IN
       /\ calls' = Append(calls, ExternalCall("quantize_dynamic", model, kw, ExtraOf(heap, kw)))
       /\ history' = Append(history, HandedOver(input_path, model, kw, ExtraOf(heap, kw)))
       /\ \E o \in Outcomes :
             /\ outcome' = o
             /\ AfterTransformation(o, "load")
    /\ UNCHANGED <<Frozen, heap, run_config, extra_options, is_static, input_path, model,
                   dataloader, tmp_dir, intersection>>

\* onnx.load, new_tmp_dir.cleanup, model_proto_to_olive_model
LoadAndSave ==
    /\ pc = "load"
    /\ pc' = "done"
    /\ UNCHANGED <<Frozen, heap, run_config, extra_options, is_static, input_path, model,
                   dataloader, tmp_dir, intersection, calls, outcome, error, cause, history>>

----------------------------------------------------------------------------
(* OnnxMatMul4Quantizer._run_for_config *)

\* MatMul4BitsQuantizer needs onnxruntime >= 1.16.2
MatMulVersionUnsupported(ort) == VersionLess(ort, <<1, 16, 2>>)

MatMulVersionCheck ==
    /\ pc = "start"
    /\ passKind = "OnnxMatMul4Quantizer"
    /\ \E path \in ModelPaths :
          /\ input_path' = path
          /\ model' = path
    /\ IF MatMulVersionUnsupported(OrtVersion)
       THEN Fail("OlivePassError", "None")
       ELSE pc' = "mm_quantize" /\ UNCHANGED <<error, cause>>
    /\ UNCHANGED <<Frozen, heap, run_config, extra_options, is_static, dataloader, tmp_dir,
                   intersection, calls, outcome, history>>

\* MatMul4BitsQuantizer(...).process(); topological_sort
MatMulQuantize ==
    /\ pc = "mm_quantize"
    /\ calls' = Append(calls, ExternalCall("MatMul4BitsQuantizer", model,
                                           Del(heap["@config"], ExternalDataKeys), EmptyDict))
    /\ pc' = "load"
    /\ UNCHANGED <<Frozen, heap, run_config, extra_options, is_static, input_path, model,
                   dataloader, tmp_dir, intersection, outcome, error, cause, history>>

----------------------------------------------------------------------------
(* The caller runs the same pass instance again with the same config *)

NextRun ==
    /\ pc \in {"done", "failed"}
    /\ runs + 1 < MaxRuns
    /\ runs' = runs + 1
    /\ heap' = [a \in Addr |-> IF a \in {"@config", "@cx"} THEN heap[a] ELSE EmptyDict]
    /\ run_config' = "None"
    /\ extra_options' = "None"
    /\ is_static' = FALSE
    /\ input_path' = "None"
    /\ model' = "None"
    /\ dataloader' = "UNBOUND"
    /\ intersection' = {}
    /\ calls' = <<>>
    /\ outcome' = "None"
    /\ pc' = "start"
    /\ error' = "None"
    /\ cause' = "None"
    /\ UNCHANGED <<passKind, OrtVersion, qnn_extra, config0, extra0, vvars, cvars, tvars, tmp_dir,
                   pre_calls, history>>

Next ==
    \/ CopyConfig
    \/ MergeExtraOptions
    \/ Preprocess
    \/ VersionCheck
    \/ BuildRunConfig
    \/ GetDataloader
    \/ PrepareQnn
    \/ QuantizeStatic
    \/ QuantizeDynamic
    \/ LoadAndSave
    \/ MatMulVersionCheck
    \/ MatMulQuantize
    \/ NextRun

allvars == <<vars, vvars, cvars, tvars>>

Spec == Init /\ [][Next]_allvars

----------------------------------------------------------------------------
(* OnnxQuantization.validate_search_point *)

ValidatedKeys ==
    {"quant_mode", "weight_type", "activation_type", "quant_format", "EnableSubgraph"}

ValueSpace ==
    [quant_mode |-> {"static", "dynamic"},
     weight_type |-> {"QInt8", "QUInt8"},
     activation_type |-> {"QInt8", "QUInt8"},
     quant_format |-> {"QOperator", "QDQ"},
     EnableSubgraph |-> {"True", "False"}]

\* every partial assignment of the validated parameters
SearchPoints ==
    UNION {[K -> {"static", "dynamic", "QInt8", "QUInt8", "QOperator", "QDQ", "True", "False"}]
             : K \in SUBSET ValidatedKeys}

WellTyped(point) == \A k \in DOMAIN point : point[k] \in ValueSpace[k]

\* Pass.config_at_search_point: the point completed with the table's defaults,
\* the static-only parameters ignored when quant_mode is dynamic
ConfigAtSearchPoint(point) ==
    LET quant_mode == Get(point, "quant_mode", "static")
        defaults == IF quant_mode = "static"
                    THEN [quant_mode |-> "static", weight_type |-> "QInt8",
                          activation_type |-> "QInt8", quant_format |-> "QDQ",
                          EnableSubgraph |-> "False"]
                    ELSE [quant_mode |-> "dynamic", weight_type |-> "QInt8",
                          EnableSubgraph |-> "False"]
    IN  Update(defaults, point)

\* the S8S8-with-QOperator test; `and` looks a key up only when the tests before it held
\* "KeyError", "True" or "False"
IsS8S8QOperator(config) ==
    IF "weight_type" \notin DOMAIN config THEN "KeyError"
    ELSE IF config["weight_type"] # "QInt8" THEN "False"
    ELSE IF "activation_type" \notin DOMAIN config THEN "KeyError"
    ELSE IF config["activation_type"] # "QInt8" THEN "False"
    ELSE IF "quant_format" \notin DOMAIN config THEN "KeyError"
    ELSE IF config["quant_format"] # "QOperator" THEN "False"
    ELSE "True"

\* faulty variant: the slow S8S8 QOperator combination is rejected instead of warned about
ValidateRejectsSlowCombination(config) ==
    IF "quant_mode" \notin DOMAIN config
    THEN [result |-> "KeyError", warned |-> FALSE]
    ELSE IF config["quant_mode"] # "static"
    THEN [result |-> "Accept", warned |-> FALSE]
    ELSE IF IsS8S8QOperator(config) = "KeyError"
    THEN [result |-> "KeyError", warned |-> FALSE]
    ELSE IF IsS8S8QOperator(config) = "True"
    THEN [result |-> "Reject", warned |-> TRUE]
    ELSE IF "EnableSubgraph" \notin DOMAIN config
    THEN [result |-> "KeyError", warned |-> FALSE]
    ELSE IF config["EnableSubgraph"] = "True"
    THEN [result |-> "Reject", warned |-> FALSE]
    ELSE [result |-> "Accept", warned |-> FALSE]

\* the body of validate_search_point on the resolved config
ValidateConfig(config) ==
    IF "quant_mode" \notin DOMAIN config
    THEN [result |-> "KeyError", warned |-> FALSE]
    ELSE IF config["quant_mode"] # "static"
    THEN [result |-> "Accept", warned |-> FALSE]
    ELSE IF IsS8S8QOperator(config) = "KeyError"
    THEN [result |-> "KeyError", warned |-> FALSE]
    ELSE LET warned == IsS8S8QOperator(config) = "True" IN
         IF "EnableSubgraph" \notin DOMAIN config
         THEN [result |-> "KeyError", warned |-> warned]
         ELSE IF config["EnableSubgraph"] = "True"
         THEN [result |-> "Reject", warned |-> warned]
         ELSE [result |-> "Accept", warned |-> warned]

\* config = search_point or {}; config_at_search_point when with_fixed_value
ResolvedPoint(point, fixed) ==
    IF fixed THEN ConfigAtSearchPoint(point.items)
    ELSE IF point.is_none THEN EmptyDict ELSE point.items

RunIdle ==
    /\ passKind = "OnnxQuantization"
    /\ OrtVersion = <<1, 17, 0>>
    /\ qnn_extra = NoQnnExtra
    /\ InitConfig(QuantizationConfig("static", "None", "None", "True", "False", "False", "None"),
                  EmptyDict)
    /\ InitLocals
    /\ tmp_dir = {}
    /\ pre_calls = [p \in ModelPaths |-> 0]
    /\ runs = 0
    /\ history = <<>>

InitValidate ==
    /\ RunIdle
    /\ \E is_none \in BOOLEAN, items \in SearchPoints :
          /\ WellTyped(items)
          /\ is_none => items = EmptyDict
          /\ search_point = [is_none |-> is_none, items |-> items]
          /\ with_fixed_value \in IF is_none THEN {FALSE} ELSE BOOLEAN
    /\ vresult = "pending"
    /\ vwarned = FALSE
    /\ ConcurrentIdle
    /\ TableIdle

ValidateSearchPoint ==
    /\ vresult = "pending"
    /\ LET v == ValidateConfig(ResolvedPoint(search_point, with_fixed_value)) IN
       /\ vresult' = v.result
       /\ vwarned' = v.warned
    /\ UNCHANGED <<vars, cvars, tvars, search_point, with_fixed_value>>

NextValidate == ValidateSearchPoint

SpecValidate == InitValidate /\ [][NextValidate]_allvars

----------------------------------------------------------------------------
(* The preprocessing cache under concurrent runs of _run_for_config.  Only the   *)
(* steps that touch self.tmp_dir are kept; the file is written in place by        *)
(* quant_pre_process (or by the except branch), so it exists before it is whole.  *)

ConcurrentRuns == 1..NumConcurrent

RunAt(path, pre) ==
    [pc |-> "check", input_path |-> path, quant_preprocess |-> pre,
     branch |-> "None", model |-> path, handed |-> "None"]

InitConcurrent ==
    /\ RunIdle
    /\ ValidateIdle
    /\ TableIdle
    /\ conc \in [ConcurrentRuns -> {RunAt(path, pre) : path \in ModelPaths, pre \in BOOLEAN}]
    /\ artifact = [p \in ModelPaths |-> "absent"]

\* preprocessed_temp_model_path.exists(): true as soon as the file has been created
Exists(path) == artifact[path] # "absent"

\* the runs still inside quant_pre_process / the except branch for a path
Writers(path) == {r \in ConcurrentRuns : conc[r].pc = "writing" /\ conc[r].input_path = path}

\* if run_config["quant_preprocess"]: if not preprocessed_temp_model_path.exists(): ...
CheckCache(r) ==
    /\ conc[r].pc = "check"
    /\ conc' = [conc EXCEPT ![r] =
                  IF ~conc[r].quant_preprocess
                  THEN [@ EXCEPT !.pc = "transform", !.branch = "off"]
                  ELSE IF ~Exists(conc[r].input_path)
                  THEN [@ EXCEPT !.pc = "preprocess", !.branch = "preprocessing"]
                  ELSE [@ EXCEPT !.pc = "transform", !.branch = "already processed",
                                 !.model = PreprocessedPath(conc[r].input_path)]]
    /\ UNCHANGED <<vars, vvars, tvars, artifact>>

\* _quant_preprocess: quant_pre_process opens the output file and starts writing it
StartPreprocess(r) ==
    /\ conc[r].pc = "preprocess"
    /\ artifact' = [artifact EXCEPT ![conc[r].input_path] = "partial"]
    /\ conc' = [conc EXCEPT ![r].pc = "writing"]
    /\ UNCHANGED <<vars, vvars, tvars>>

\* _quant_preprocess returns: the file is whole once nobody is writing it any more
FinishPreprocess(r) ==
    /\ conc[r].pc = "writing"
    /\ artifact' = [artifact EXCEPT ![conc[r].input_path] =
                      IF Writers(conc[r].input_path) = {r} THEN "complete" ELSE "partial"]
    /\ conc' = [conc EXCEPT ![r].pc = "transform",
                            ![r].model = PreprocessedPath(conc[r].input_path)]
    /\ UNCHANGED <<vars, vvars, tvars>>

\* quantize_static / quantize_dynamic reads model.model_path
Transform(r) ==
    /\ conc[r].pc = "transform"
    /\ conc' = [conc EXCEPT ![r].pc = "done",
                            ![r].handed = IF conc[r].quant_preprocess
                                          THEN artifact[conc[r].input_path]
                                          ELSE "original"]
    /\ UNCHANGED <<vars, vvars, tvars, artifact>>

NextConcurrent ==
    \E r \in ConcurrentRuns :
        \/ CheckCache(r)
        \/ StartPreprocess(r)
        \/ FinishPreprocess(r)
        \/ Transform(r)

SpecConcurrent == InitConcurrent /\ [][NextConcurrent]_allvars

----------------------------------------------------------------------------
(* The table of static-only parameters: the loop of _default_config, then the    *)
(* resolution of every entry at one choice of parent values.                     *)

InitTable ==
    /\ RunIdle
    /\ ValidateIdle
    /\ ConcurrentIdle
    /\ static_optional_config = StaticOptionalConfig
    /\ rewritten = 0
    /\ parent_values \in {ParentValues(m, f, w) :
                            m \in QuantModes, f \in QuantFormats, w \in WeightTypes}
    /\ omitted_default \in OmittedDefaults
    /\ resolved = NotResolved

\* one iteration of `for value in static_optional_config.values()`
RewriteEntry ==
    /\ rewritten < Len(StaticOptionalOrder)
    /\ static_optional_config' =
          [static_optional_config EXCEPT ![StaticOptionalOrder[rewritten + 1]] =
              RewriteForQuantMode(@)]
    /\ rewritten' = rewritten + 1
    /\ UNCHANGED <<vars, vvars, cvars, parent_values, omitted_default, resolved>>

\* the search-space engine resolves each entry's default and searchable values
ResolveTable ==
    /\ rewritten = Len(StaticOptionalOrder)
    /\ resolved = NotResolved
    /\ resolved' =
          [name \in StaticOptionalKeys |->
              [default |-> Resolve(static_optional_config[name].default_value,
                                   parent_values, omitted_default),
               allowed |-> Resolve(static_optional_config[name].searchable_values,
                                   parent_values, omitted_default)]]
    /\ UNCHANGED <<vars, vvars, cvars, static_optional_config, rewritten, parent_values,
                   omitted_default>>

NextTable == RewriteEntry \/ ResolveTable

SpecTable == InitTable /\ [][NextTable]_allvars

----------------------------------------------------------------------------
(* Claims *)

Transformations == {"quantize_static", "quantize_dynamic"}

TransformationCalls == {i \in DOMAIN calls : calls[i].fn \in Transformations}

CallsOf(fn) == {i \in DOMAIN calls : calls[i].fn = fn}

IsQuantRun == passKind \in QuantKinds

StaticRequested == IsQuantRun /\ config0["quant_mode"] = "static"

NoCalibrationSource ==
    /\ config0["dataloader_func"] \in {"None", ""}
    /\ config0["data_config"] \in {"None", "{}"}

BothCalibrationSources ==
    /\ config0["dataloader_func"] \notin {"None", ""}
    /\ config0["data_config"] \notin {"None", "{}"}

\* C1: whenever the transformation is invoked, the extra_options it receives map
\* every exposed option name to the pass config's value, and no exposed name is a
\* top-level keyword.
C1_ExposedOverridePrecedence ==
    IsQuantRun =>
        \A i \in TransformationCalls :
            \A k \in {"extra.Sigmoid.nnapi", "ActivationSymmetric", "WeightSymmetric",
                      "EnableSubgraph", "ForceQuantizeNoInputCheck", "MatMulConstBOnly"} :
                /\ k \in DOMAIN calls[i].extra
                /\ calls[i].extra[k] = config0[k]
                /\ k \notin DOMAIN calls[i].kw

\* C2: the keyword configuration handed to the transformation holds none of the
\* bookkeeping keys, the external-data keys or the static dataloader keys, and in
\* dynamic mode none of calibrate_method, quant_format, activation_type.
C2_NoForeignKeys ==
    IsQuantRun =>
        \A i \in TransformationCalls :
            /\ DOMAIN calls[i].kw \cap
                 {"quant_mode", "script_dir", "user_script", "quant_preprocess",
                  "data_config", "prepare_qnn_config", "save_as_external_data",
                  "all_tensors_to_one_file", "external_data_name", "data_dir",
                  "batch_size", "dataloader_func", "dataloader_func_kwargs"} = {}
            /\ config0["quant_mode"] = "dynamic" =>
                 DOMAIN calls[i].kw \cap
                   {"calibrate_method", "quant_format", "activation_type"} = {}

\* a dynamic call was made from a config that carried the static-only keys
C2_Witness ==
    /\ passKind = "OnnxQuantization"
    /\ config0["quant_mode"] = "dynamic"
    /\ "calibrate_method" \in DOMAIN config0
    /\ CallsOf("quantize_dynamic") # {}

\* C3: a static run with neither dataloader_func nor data_config fails with the
\* assertion's error, and no external call has been made in that run.
C3_NoCalibrationSourceFailsFirst ==
    (StaticRequested /\ NoCalibrationSource /\ pc # "start") =>
        /\ pc = "failed"
        /\ error = "AssertionError"
        /\ calls = <<>>

C3_Witness ==
    /\ StaticRequested
    /\ NoCalibrationSource
    /\ config0["quant_preprocess"] = "True"
    /\ pc = "failed"

\* C4: a run that fails the onnxruntime version gate has made no external call.
C4_VersionErrorBeforeAnyExternalCall ==
    (pc = "failed" /\ error = "OlivePassError" /\ cause = "None") => calls = <<>>

\* C5: a run that reaches the transformation invokes exactly one of quantize_static
\* and quantize_dynamic, once, quantize_static if and only if quant_mode is static.
C5_ExactlyOneTransformation ==
    IsQuantRun =>
        /\ Cardinality(TransformationCalls) <= 1
        /\ CallsOf("quantize_static") # {} => config0["quant_mode"] = "static"
        /\ CallsOf("quantize_dynamic") # {} => config0["quant_mode"] # "static"
        /\ (pc \in {"load", "done"} \/ outcome # "None") =>
             Cardinality(TransformationCalls) = 1

C5_Witness ==
    /\ StaticRequested
    /\ pc = "done"
    /\ Cardinality(CallsOf("quantize_static")) = 1

\* C6: an AttributeError or ValueError of the transformation leaves the run as one
\* OlivePassError caused by it; any other error leaves it unmodified; a failed
\* transformation never yields a result.
C6_NarrowCatch ==
    /\ outcome \in {"AttributeError", "ValueError"} =>
         pc = "failed" /\ error = "OlivePassError" /\ cause = outcome
    /\ outcome \in {"TypeError", "RuntimeError"} =>
         pc = "failed" /\ error = outcome /\ cause = "None"

C6_Witness ==
    /\ outcome = "ValueError"
    /\ error = "OlivePassError"
    /\ cause = "ValueError"

\* C7: on the config it inspects, validate_search_point rejects exactly when
\* quant_mode is static and EnableSubgraph is True; a fully resolved point always
\* gets a verdict, and the S8S8 QOperator combination is accepted with a warning.
C7_RejectsExactlyStaticSubgraph ==
    vresult \notin {"idle", "pending"} =>
        LET config == ResolvedPoint(search_point, with_fixed_value)
            has(k, v) == k \in DOMAIN config /\ config[k] = v
            rejected == has("quant_mode", "static") /\ has("EnableSubgraph", "True")
            slow == /\ has("quant_mode", "static") /\ has("weight_type", "QInt8")
                    /\ has("activation_type", "QInt8") /\ has("quant_format", "QOperator")
        IN  /\ vresult \in {"Accept", "Reject"} => (vresult = "Reject" <=> rejected)
            /\ {"quant_mode", "weight_type", "activation_type", "quant_format",
                "EnableSubgraph"} \subseteq DOMAIN config => vresult \in {"Accept", "Reject"}
            /\ (slow /\ has("EnableSubgraph", "False")) => (vresult = "Accept" /\ vwarned)
            /\ vwarned => slow

C7_Witness ==
    /\ ~with_fixed_value
    /\ DOMAIN search_point.items = ValidatedKeys
    /\ search_point.items["quant_format"] = "QOperator"
    /\ search_point.items["weight_type"] = "QInt8"
    /\ search_point.items["activation_type"] = "QInt8"
    /\ vresult = "Accept"
    /\ vwarned

\* C8: successive runs on the same instance with the same config hand the same
\* keyword configuration and merged extra_options to the transformation (and the
\* same model input for the same input model), and no run changes the caller's
\* config or its nested extra_options.
C8_RunConfigIdempotent ==
    IsQuantRun =>
        /\ \A i, j \in DOMAIN history :
              /\ history[i].kw = history[j].kw
              /\ history[i].extra = history[j].extra
              /\ history[i].input_path = history[j].input_path =>
                   history[i].model_input = history[j].model_input
        /\ heap["@config"] = config0
        /\ heap["@cx"] = extra0

C8_Witness ==
    /\ IsQuantRun
    /\ Len(history) = 2
    /\ config0["extra_options"] = "@cx"
    /\ "ActivationSymmetric" \in DOMAIN extra0
    /\ extra0["ActivationSymmetric"] # config0["ActivationSymmetric"]

\* C9 as stated: a static run goes on only if exactly one of dataloader_func and
\* data_config is supplied; neither, or both, fails before execution.
C9_ExactlyOneCalibrationSource ==
    (StaticRequested /\ pc # "start" /\ (NoCalibrationSource \/ BothCalibrationSources)) =>
        /\ pc = "failed"
        /\ error = "AssertionError"
        /\ calls = <<>>

\* C9 amended: a static run reaches the transformation only if at least one of
\* dataloader_func and data_config is supplied; neither fails before execution;
\* with both, the run goes on and calibrates with dataloader_func.
C9_AtLeastOneCalibrationSource ==
    (StaticRequested /\ pc # "start") =>
        /\ NoCalibrationSource => (pc = "failed" /\ error = "AssertionError" /\ calls = <<>>)
        /\ TransformationCalls # {} =>
             /\ ~NoCalibrationSource
             /\ dataloader = IF config0["dataloader_func"] \notin {"None", ""}
                             THEN "dataloader_func" ELSE "data_config"

C9_Witness ==
    /\ StaticRequested
    /\ BothCalibrationSources
    /\ CallsOf("quantize_static") # {}
    /\ dataloader = "dataloader_func"

\* C10: validate_search_point returns Accept or Reject for every search point,
\* partial, empty or None, and never raises.
C10_ValidateTotal == vresult \in {"idle", "pending", "Accept", "Reject"}

\* C11: in a run that gets past its entry check, the collision warning is logged
\* exactly when the caller's extra_options holds an exposed option name, it names
\* exactly those names, and it does not end the run: a failure after it comes from
\* a later step.
C11_CollisionWarning ==
    (IsQuantRun /\ pc \notin {"start", "merge"}
       /\ ~(pc = "failed" /\ error = "AssertionError")) =>
        /\ intersection =
             IF config0["extra_options"] = "@cx"
             THEN {k \in DOMAIN extra0 :
                     k \in {"extra.Sigmoid.nnapi", "ActivationSymmetric", "WeightSymmetric",
                            "EnableSubgraph", "ForceQuantizeNoInputCheck",
                            "MatMulConstBOnly"}}
             ELSE {}
        /\ pc = "failed" =>
             error \in {"OlivePassError", "Exception", "AttributeError", "ValueError",
                        "TypeError", "RuntimeError"}

\* a run that warned about ActivationSymmetric went on to the transformation
C11_Witness ==
    /\ IsQuantRun
    /\ intersection = {"ActivationSymmetric"}
    /\ "CalibMovingAverage" \in DOMAIN extra0
    /\ TransformationCalls # {}
    /\ pc = "done"

\* C12: over the runs of one pass instance, quant_pre_process is invoked at most
\* once per input model path, and only while no artifact is cached for that path;
\* with quant_preprocess true the transformation gets the cached artifact, with
\* quant_preprocess false it gets the original path whatever the cache holds.
C12_PreprocessCachedPerInput ==
    IsQuantRun =>
        /\ \A p \in ModelPaths :
              /\ pre_calls[p] <= 1
              /\ pre_calls[p] = 1 <=> p \in tmp_dir
        /\ config0["quant_preprocess"] # "True" => CallsOf("quant_pre_process") = {}
        /\ \A i \in TransformationCalls :
              calls[i].model_input =
                 IF config0["quant_preprocess"] = "True"
                 THEN "olive_tmp/" \o input_path \o "/preprocessed.onnx"
                 ELSE input_path

\* the second run on b.onnx found the first run's artifact and skipped preprocessing
C12_Witness ==
    /\ IsQuantRun
    /\ runs = 1
    /\ input_path = "b.onnx"
    /\ pre_calls["b.onnx"] = 1
    /\ CallsOf("quant_pre_process") = {}
    /\ TransformationCalls # {}

\* C13: under concurrent runs on one cache directory, a run that takes the
\* "already processed" branch hands the transformation a completely written artifact.
C13_CachedArtifactComplete ==
    \A r \in DOMAIN conc :
        (conc[r].branch = "already processed" /\ conc[r].pc = "done") =>
            conc[r].handed = "complete"

\* the same lookups in the table as declared, before the loop rewrote it
OriginalDefault(name) ==
    Leaf(StaticOptionalConfig[name].default_value.kind,
         StaticOptionalConfig[name].default_value.values)

OriginalAllowed(name) ==
    Resolve(StaticOptionalConfig[name].searchable_values, parent_values, omitted_default)

SupportKeysMatchParents(param) ==
    param.kind = "Conditional" =>
        \A k \in DOMAIN param.support : Len(k) = Len(param.parents)

\* C14: in the rewritten table every static-only parameter's default resolves to the
\* original default under "static" and to IGNORED under "dynamic"; a declared
\* searchable_values resolves to the original expression's result under "static" and
\* to IGNORED otherwise; every support key is as long as the list of parents.
C14_RewritePreservesOriginal ==
    (rewritten = Len(StaticOptionalOrder) /\ resolved # NotResolved) =>
        \A name \in StaticOptionalKeys :
            /\ resolved[name].default =
                  IF parent_values["quant_mode"] = "static"
                  THEN OriginalDefault(name) ELSE get_ignored_choice
            /\ StaticOptionalConfig[name].searchable_values.kind # "None" =>
                  resolved[name].allowed =
                     IF parent_values["quant_mode"] = "static"
                     THEN OriginalAllowed(name) ELSE get_ignored_choice
            /\ SupportKeysMatchParents(static_optional_config[name].default_value)
            /\ SupportKeysMatchParents(static_optional_config[name].searchable_values)

\* activation_type's allowed values in the rewritten table, under quant_mode "static"
ActivationAllowed(quant_format, weight_type) ==
    Resolve(static_optional_config["activation_type"].searchable_values,
            ParentValues("static", quant_format, weight_type), omitted_default)

\* every (quant_format, weight_type, activation_type) the rewritten table allows
JointSearchSpace ==
    {t \in QuantFormats \X {"QInt8", "QUInt8"} \X WeightTypes :
        /\ ActivationAllowed(t[1], t[2]).kind = "Categorical"
        /\ t[3] \in ActivationAllowed(t[1], t[2]).values}

\* C15: once _default_config has rewritten the table, the joint search space of
\* (quant_format, weight_type, activation_type) is exactly the three triples
\* (QDQ, QInt8, QInt8), (QDQ, QUInt8, QUInt8), (QOperator, QUInt8, QUInt8), and
\* (QOperator, QInt8) resolves to INVALID, neither a value nor IGNORED.
C15_JointSearchSpace ==
    rewritten = Len(StaticOptionalOrder) =>
        /\ JointSearchSpace = {<<"QDQ", "QInt8", "QInt8">>, <<"QDQ", "QUInt8", "QUInt8">>,
                               <<"QOperator", "QUInt8", "QUInt8">>}
        /\ ActivationAllowed("QOperator", "QInt8") = get_invalid_choice
        /\ (/\ resolved # NotResolved
            /\ parent_values = ParentValues("static", "QOperator", "QInt8")) =>
               resolved["activation_type"].allowed = get_invalid_choice

C15_Witness ==
    /\ rewritten = Len(StaticOptionalOrder)
    /\ parent_values = ParentValues("static", "QOperator", "QInt8")
    /\ resolved # NotResolved
    /\ resolved["activation_type"].allowed.kind = "INVALID"
    /\ resolved["quant_format"].allowed.values = QuantFormats

====
